---- MODULE Spec2Model ----
(***************************************************************************)
(* Model of the anonymous one-liner API (Cloudflare Pages Function + D1). *)
(*                                                                         *)
(* Two variants of the handler onRequest exist in the repository:          *)
(*   "rl"    the rate-limited handler  (src/unnamed/part_000, 80-201)      *)
(*   "plain" the handler without rate limit or error handling              *)
(*           (src/functions/api/messages.js, 21-84)                        *)
(* Both work on the same D1 database: tables messages and rate_limits.     *)
(* Every await of a handler is a scheduling point, so a handler is a       *)
(* sequence of atomic steps that interleave with the steps of the other    *)
(* invocations and with the passage of time.                               *)
(***************************************************************************)
EXTENDS Integers, Sequences, FiniteSets, TLC

VARIABLES
    clock,        \* Date.now(), in ms; non-decreasing
    ticks,        \* how often the clock advanced (bounds the run)
    dbBound,      \* TRUE iff env.DB is bound
    messages,     \* table messages: sequence of rows, in insertion order
    nextId,       \* AUTOINCREMENT counter of messages.id
    rate_limits,  \* table rate_limits: set of rows [ip_hash, last_ts]
    req,          \* the invocations of onRequest, one record per slot
    started,      \* number of invocations started so far
    nIn,          \* normalizeText: the argument under test
    nOut,         \* normalizeText(nIn) once it is computed
    nStage        \* 0: nothing computed, 1: nOut, 2: nOut normalized again

vars == <<clock, ticks, dbBound, messages, nextId, rate_limits, req, started,
          nIn, nOut, nStage>>

---------------------------------------------------------------------------
(* Bounds of the model *)

MaxReq == 2          \* invocations of onRequest in one run
MaxTicks == 3        \* advances of the clock in one run
PrefillRows == 10    \* rows of messages in the larger initial table
NormMaxLen == 4      \* longest argument of normalizeText under test
T0 == 100000         \* Date.now() in the initial state

(* Program constants *)

WINDOW_MS == 30000   \* rate-limit window
LIMIT == 10          \* LIMIT of the SELECT of GET
MAX_TEXT == 50       \* longest accepted text

---------------------------------------------------------------------------
(* Text: a JavaScript string is a sequence of characters (UTF-16 units).  *)

SP == " "
TAB == "\t"
Chars == {"a", SP, TAB}

\* the characters String.prototype.trim strips and /\s/ matches
IsSpace(c) == c \in {SP, TAB}

\* body.text is missing (undefined): a value that is no string
Undefined == <<"undefined">>

RECURSIVE TrimStart(_)
TrimStart(s) ==
    IF s = <<>> THEN <<>>
    ELSE IF IsSpace(Head(s)) THEN TrimStart(Tail(s)) ELSE s

RECURSIVE TrimEnd(_)
TrimEnd(s) ==
    IF s = <<>> THEN <<>>
    ELSE IF IsSpace(s[Len(s)]) THEN TrimEnd(SubSeq(s, 1, Len(s) - 1)) ELSE s

\* String.prototype.trim
Trim(s) == TrimEnd(TrimStart(s))

\* mutant: /\s/g, every whitespace character becomes a space of its own
RECURSIVE CollapseEach(_)
CollapseEach(s) ==
    IF s = <<>> THEN <<>>
    ELSE <<IF IsSpace(Head(s)) THEN SP ELSE Head(s)>> \o CollapseEach(Tail(s))

\* s.replace(/\s+/g, " "): every maximal run of whitespace becomes one space
RECURSIVE CollapseWs(_)
CollapseWs(s) ==
    IF s = <<>> THEN <<>>
    ELSE IF IsSpace(Head(s))
         THEN <<SP>> \o CollapseWs(TrimStart(s))
         ELSE <<Head(s)>> \o CollapseWs(Tail(s))

\* s || "": undefined and the empty string are falsy
OrEmpty(s) == IF s = Undefined THEN <<>> ELSE s

\* normalizeText of the rate-limited handler
normalizeText(s) == CollapseWs(Trim(OrEmpty(s)))

\* (body?.text || "").trim() of the plain handler
trimText(s) == Trim(OrEmpty(s))

Rep(c, n) == [i \in 1..n |-> c]

---------------------------------------------------------------------------
(* The requests the environment sends *)

Reqs == 1..MaxReq
Variants == {"rl", "plain"}
Methods == {"OPTIONS", "GET", "POST", "PUT"}
\* ipHash = sha256Hex(ip | salt): one opaque key per client
Keys == {"k1", "k2"}

\* request.json() throws
BadJSON == <<"badjson">>
\* the body is not read yet
Unread == <<"unread">>

\* texts a body may carry: short, with whitespace to trim and collapse, blank,
\* at the limit, over the limit, and over the limit only before collapsing
SampleTexts ==
    { <<"a">>,
      <<SP, "a", SP, TAB, "a", TAB>>,
      <<SP, TAB>>,
      Rep("a", MAX_TEXT),
      Rep("a", MAX_TEXT + 1),
      <<"a">> \o Rep(SP, MAX_TEXT) \o <<"a">> }

Bodies == {BadJSON, Undefined} \cup SampleTexts

---------------------------------------------------------------------------
(* Responses *)

NoResp ==
    [kind |-> "none", status |-> 0, ok |-> FALSE, error |-> "",
     retry_after_ms |-> 0, retry_after |-> 0]

\* new Response(null, { headers: corsHeaders })
EmptyResponse == [NoResp EXCEPT !.kind = "empty", !.status = 200]

\* json({ ok: true, ... }, 200, ...)
JsonOk == [NoResp EXCEPT !.kind = "json", !.status = 200, !.ok = TRUE]

\* json({ ok: false, error }, status, ...)
JsonErr(status, error) ==
    [NoResp EXCEPT !.kind = "json", !.status = status, !.error = error]

\* the handler rejects: no Response is produced
Unhandled == [NoResp EXCEPT !.kind = "exception"]

---------------------------------------------------------------------------
(* The D1 statements *)

\* the rows of a table held as a sequence
RowSet(rows) == {rows[i] : i \in 1..Len(rows)}

MaxCreated(S) == CHOOSE t \in {m.created_at : m \in S} :
                     \A m \in S : m.created_at <= t

\* every answer ORDER BY created_at DESC LIMIT k may give: rows that tie in
\* created_at come in any order
RECURSIVE OrderedTop(_, _)
OrderedTop(S, k) ==
    IF k = 0 \/ S = {} THEN {<<>>}
    ELSE UNION { {<<m>> \o t : t \in OrderedTop(S \ {m}, k - 1)} :
                 m \in {x \in S : x.created_at = MaxCreated(S)} }

\* mutant: the SELECT without its LIMIT
SelectAll(rows) == OrderedTop(RowSet(rows), Len(rows))

\* SELECT id, text, created_at FROM messages ORDER BY created_at DESC LIMIT 10
SelectRecent(rows) == OrderedTop(RowSet(rows), LIMIT)

\* mutant: INSERT OR REPLACE under a unique text, rows with the text are replaced
InsertMessageReplace(rows, id, text, createdAt) ==
    Append(SelectSeq(rows, LAMBDA m : m.text # text),
           [id |-> id, text |-> text, created_at |-> createdAt])

\* INSERT INTO messages (text, created_at) VALUES (?, ?)
InsertMessage(rows, id, text, createdAt) ==
    Append(rows, [id |-> id, text |-> text, created_at |-> createdAt])

\* mutant: the SELECT without its WHERE, the first row of any key is read
SelectLastTsAnyRow(table, key) ==
    IF table = {} THEN 0 ELSE (CHOOSE row \in table : TRUE).last_ts

\* SELECT last_ts FROM rate_limits WHERE ip_hash = ? ... .first(), then
\* rlRow?.last_ts: 0 stands for every falsy outcome (no row)
SelectLastTs(table, key) ==
    IF \E row \in table : row.ip_hash = key
    THEN (CHOOSE row \in table : row.ip_hash = key).last_ts
    ELSE 0

\* mutant: ON CONFLICT(ip_hash) DO NOTHING, an existing row keeps its last_ts
UpsertLastTsKeepOld(table, key, now) ==
    IF \E row \in table : row.ip_hash = key
    THEN table
    ELSE table \cup {[ip_hash |-> key, last_ts |-> now]}

\* mutant: the timestamp is stored in seconds
UpsertLastTsSeconds(table, key, now) ==
    {row \in table : row.ip_hash # key}
        \cup {[ip_hash |-> key, last_ts |-> now \div 1000]}

\* INSERT INTO rate_limits ... ON CONFLICT(ip_hash) DO UPDATE SET last_ts = ...
UpsertLastTs(table, key, now) ==
    {row \in table : row.ip_hash # key}
        \cup {[ip_hash |-> key, last_ts |-> now]}

---------------------------------------------------------------------------
(* The decisions of the handlers *)

\* mutant: the window is compared in seconds
ThrottledSeconds(last_ts, now) ==
    last_ts # 0 /\ now - last_ts < WINDOW_MS \div 1000

\* mutant: the boundary now - last_ts = WINDOW_MS is throttled too
ThrottledInclusive(last_ts, now) == last_ts # 0 /\ now - last_ts <= WINDOW_MS

\* rlRow?.last_ts && now - rlRow.last_ts < WINDOW_MS
Throttled(last_ts, now) == last_ts # 0 /\ now - last_ts < WINDOW_MS

\* WINDOW_MS - (now - rlRow.last_ts)
RetryAfterMs(last_ts, now) == WINDOW_MS - (now - last_ts)

\* Math.ceil(retryAfterMs / 1000)
RetryAfterSec(ms) == -((-ms) \div 1000)

TooMany(last_ts, now) ==
    [JsonErr(429, "Too many requests") EXCEPT
        !.retry_after_ms = RetryAfterMs(last_ts, now),
        !.retry_after = RetryAfterSec(RetryAfterMs(last_ts, now))]

\* mutant: only the empty text is rejected
ValidTextNoMax(text) == text # <<>> /\ Len(text) >= 1

\* !text || text.length < 1 || text.length > 50, negated
ValidText(text) == text # <<>> /\ Len(text) >= 1 /\ Len(text) <= MAX_TEXT

\* !text || text.length > 50, negated
ValidTextPlain(text) == text # <<>> /\ Len(text) <= MAX_TEXT

\* the text a handler derives from the parsed body
TextOf(variant, body) ==
    IF variant = "rl" THEN normalizeText(body) ELSE trimText(body)

ValidFor(variant, text) ==
    IF variant = "rl" THEN ValidText(text) ELSE ValidTextPlain(text)

---------------------------------------------------------------------------
(* The invocations of onRequest *)

\* pc: "idle" (not started), "read", "upsert", "parse", "insert", "select"
\*     (the statement the invocation awaits next), "done" (it has answered)
IdleReq ==
    [pc |-> "idle", variant |-> "rl", method |-> "GET",
     key |-> "",         \* ipHash, which only POST of the rate-limited handler computes
     now |-> 0,          \* Date.now() as the handler captured it
     seen |-> -1,        \* rlRow?.last_ts as read (0: none), -1: not read
     body |-> Unread,    \* body.text as parsed
     text |-> <<>>,      \* the text derived from it
     reads |-> 0,        \* SELECTs on rate_limits it issued
     upserts |-> 0,      \* upserts on rate_limits it issued
     wrote |-> FALSE,    \* the rate_limits upsert ran
     wroteAtRead |-> {}, \* the invocations whose upsert had run when it read
     fault |-> FALSE,    \* a storage call of it failed
     rowId |-> 0,        \* id of the messages row it inserted, 0: none
     snap |-> -1,        \* rows in messages when its SELECT ran, -1: not run
     data |-> <<>>,      \* results of its SELECT
     resp |-> NoResp,
     before |-> {}]      \* the invocations that had answered when it started

Respond(rec, resp) == [rec EXCEPT !.pc = "done", !.resp = resp]

\* a storage call throws
Faulted(rec) == [rec EXCEPT !.fault = TRUE]

Prefill(n) == [i \in 1..n |-> [id |-> i, text |-> <<"a">>, created_at |-> i * 1000]]

Steps == {1, WINDOW_MS - 1}

Init ==
    /\ clock = T0
    /\ ticks = 0
    /\ dbBound \in BOOLEAN
    /\ messages \in {Prefill(0), Prefill(PrefillRows)}
    /\ nextId = Len(messages) + 1
    /\ rate_limits = {}
    /\ req = [r \in Reqs |-> IdleReq]
    /\ started = 0
    /\ nIn = Undefined
    /\ nOut = <<>>
    /\ nStage = 0

normVars == <<nIn, nOut, nStage>>

\* time passes
Tick(d) ==
    /\ ticks < MaxTicks
    /\ ticks' = ticks + 1
    /\ clock' = clock + d
    /\ UNCHANGED <<dbBound, messages, nextId, rate_limits, req, started, normVars>>

\* mutant: the rate limit sits before the dispatch, GET passes through it too
StartRlGetLimited(rec, method, key) ==
    IF method = "OPTIONS" THEN Respond(rec, EmptyResponse)
    ELSE IF ~dbBound
    THEN Respond(Faulted(rec),
                 JsonErr(500, "DB binding not found (env.DB is undefined)"))
    ELSE IF method \in {"GET", "POST"}
    THEN [rec EXCEPT !.pc = "read", !.key = key, !.now = clock]
    ELSE Respond(rec, JsonErr(405, "Method not allowed"))

\* mutant: the final 405 is missing, an unknown method falls into the POST branch
StartRlNoDefault(rec, method, key) ==
    IF method = "OPTIONS" THEN Respond(rec, EmptyResponse)
    ELSE IF ~dbBound
    THEN Respond(Faulted(rec),
                 JsonErr(500, "DB binding not found (env.DB is undefined)"))
    ELSE IF method = "GET" THEN [rec EXCEPT !.pc = "select"]
    ELSE [rec EXCEPT !.pc = "read", !.key = key, !.now = clock]

\* the synchronous head of the rate-limited handler: preflight, the check of
\* env.DB, the dispatch on request.method, and for POST ipHash and now
StartRl(rec, method, key) ==
    IF method = "OPTIONS" THEN Respond(rec, EmptyResponse)
    ELSE IF ~dbBound
    THEN Respond(Faulted(rec),
                 JsonErr(500, "DB binding not found (env.DB is undefined)"))
    ELSE IF method = "GET" THEN [rec EXCEPT !.pc = "select"]
    ELSE IF method = "POST"
    THEN [rec EXCEPT !.pc = "read", !.key = key, !.now = clock]
    ELSE Respond(rec, JsonErr(405, "Method not allowed"))

\* the synchronous head of the plain handler
StartPlain(rec, method) ==
    IF method = "OPTIONS" THEN Respond(rec, EmptyResponse)
    ELSE IF method = "GET" THEN [rec EXCEPT !.pc = "select"]
    ELSE IF method = "POST" THEN [rec EXCEPT !.pc = "parse"]
    ELSE Respond(rec, JsonErr(405, "Method not allowed"))

\* a request arrives and onRequest runs up to its first storage or body await
Start(r, variant, method, key) ==
    /\ r = started + 1
    /\ req[r].pc = "idle"
    /\ started' = r
    /\ LET rec == [req[r] EXCEPT !.variant = variant, !.method = method,
                                 !.before = {q \in Reqs : req[q].pc = "done"}]
       IN req' = [req EXCEPT ![r] =
                     IF variant = "rl" THEN StartRl(rec, method, key)
                                       ELSE StartPlain(rec, method)]
    /\ UNCHANGED <<clock, ticks, dbBound, messages, nextId, rate_limits, normVars>>

\* mutant: the 429 is built but not returned
AfterReadNoReturn(rec, last_ts) == [rec EXCEPT !.seen = last_ts, !.pc = "upsert"]

\* the rate-limit read returns and the handler decides
AfterRead(rec, last_ts) ==
    IF Throttled(last_ts, rec.now)
    THEN Respond([rec EXCEPT !.seen = last_ts], TooMany(last_ts, rec.now))
    ELSE [rec EXCEPT !.seen = last_ts, !.pc = "upsert"]

RlRead(r, fail) ==
    /\ req[r].pc = "read"
    /\ LET rec == [req[r] EXCEPT !.reads = @ + 1]
       IN req' = [req EXCEPT ![r] =
                     IF fail
                     THEN Respond(Faulted(rec), JsonErr(500, "Server error on POST"))
                     ELSE AfterRead([rec EXCEPT !.wroteAtRead =
                                                    {q \in Reqs : req[q].wrote}],
                                    SelectLastTs(rate_limits, rec.key))]
    /\ UNCHANGED <<clock, ticks, dbBound, messages, nextId, rate_limits, started,
                   normVars>>

\* the rate-limit upsert runs
RlUpsert(r, fail) ==
    /\ req[r].pc = "upsert"
    /\ IF fail
       THEN /\ req' = [req EXCEPT ![r] =
                          Respond(Faulted([@ EXCEPT !.upserts = @ + 1]),
                                  JsonErr(500, "Server error on POST"))]
            /\ UNCHANGED rate_limits
       ELSE /\ rate_limits' = UpsertLastTs(rate_limits, req[r].key, req[r].now)
            /\ req' = [req EXCEPT ![r].upserts = @ + 1, ![r].wrote = TRUE,
                                  ![r].pc = "parse"]
    /\ UNCHANGED <<clock, ticks, dbBound, messages, nextId, started, normVars>>

\* mutant: created_at is a Date.now() taken after the body is parsed
AfterParseFreshNow(rec, body) ==
    IF body = BadJSON
    THEN Respond([rec EXCEPT !.body = body], JsonErr(400, "Invalid JSON"))
    ELSE LET text == TextOf(rec.variant, body)
             got == [rec EXCEPT !.body = body, !.text = text]
         IN IF ~ValidFor(rec.variant, text)
            THEN Respond(got, JsonErr(400, "Text must be 1-50 chars"))
            ELSE [got EXCEPT !.pc = "insert", !.now = clock]

\* request.json() settles; the handler derives the text and validates it; the
\* plain handler captures createdAt = Date.now() right before its INSERT
AfterParse(rec, body) ==
    IF body = BadJSON
    THEN Respond([rec EXCEPT !.body = body], JsonErr(400, "Invalid JSON"))
    ELSE LET text == TextOf(rec.variant, body)
             got == [rec EXCEPT !.body = body, !.text = text]
         IN IF ~ValidFor(rec.variant, text)
            THEN Respond(got, JsonErr(400, "Text must be 1-50 chars"))
            ELSE [got EXCEPT !.pc = "insert",
                             !.now = IF rec.variant = "rl" THEN rec.now ELSE clock]

Parse(r, body) ==
    /\ req[r].pc = "parse"
    /\ req' = [req EXCEPT ![r] = AfterParse(@, body)]
    /\ UNCHANGED <<clock, ticks, dbBound, messages, nextId, rate_limits, started,
                   normVars>>

\* what a failed storage call of a handler ends in: the rate-limited handler
\* catches it, the plain handler lets it escape
StorageError(rec, error) ==
    IF rec.variant = "rl" THEN Respond(Faulted(rec), JsonErr(500, error))
                          ELSE Respond(Faulted(rec), Unhandled)

\* the INSERT into messages runs (env.DB.prepare throws when env.DB is missing)
Insert(r, fail) ==
    /\ req[r].pc = "insert"
    /\ IF fail \/ ~dbBound
       THEN /\ req' = [req EXCEPT ![r] = StorageError(@, "Server error on POST")]
            /\ UNCHANGED <<messages, nextId>>
       ELSE /\ messages' = InsertMessage(messages, nextId, req[r].text, req[r].now)
            /\ nextId' = nextId + 1
            /\ req' = [req EXCEPT ![r] = Respond([@ EXCEPT !.rowId = nextId], JsonOk)]
    /\ UNCHANGED <<clock, ticks, dbBound, rate_limits, started, normVars>>

\* the SELECT of GET runs
Select(r, fail) ==
    /\ req[r].pc = "select"
    /\ IF fail \/ ~dbBound
       THEN req' = [req EXCEPT ![r] = StorageError(@, "DB error on GET")]
       ELSE \E res \in SelectRecent(messages) :
               req' = [req EXCEPT ![r] =
                          Respond([@ EXCEPT !.data = res, !.snap = Len(messages)],
                                  JsonOk)]
    /\ UNCHANGED <<clock, ticks, dbBound, messages, nextId, rate_limits, started,
                   normVars>>

Next ==
    \/ \E d \in Steps : Tick(d)
    \/ \E r \in Reqs, v \in Variants, m \in Methods, k \in Keys : Start(r, v, m, k)
    \/ \E r \in Reqs, fail \in BOOLEAN : RlRead(r, fail)
    \/ \E r \in Reqs, fail \in BOOLEAN : RlUpsert(r, fail)
    \/ \E r \in Reqs, body \in Bodies : Parse(r, body)
    \/ \E r \in Reqs, fail \in BOOLEAN : Insert(r, fail)
    \/ \E r \in Reqs, fail \in BOOLEAN : Select(r, fail)

Spec == Init /\ [][Next]_vars

---------------------------------------------------------------------------
(* normalizeText on its own: every argument up to NormMaxLen characters *)

NormInputs == {Undefined} \cup UNION {[1..n -> Chars] : n \in 0..NormMaxLen}

NormInit ==
    /\ clock = T0
    /\ ticks = 0
    /\ dbBound = TRUE
    /\ messages = <<>>
    /\ nextId = 1
    /\ rate_limits = {}
    /\ req = [r \in Reqs |-> IdleReq]
    /\ started = 0
    /\ nIn \in NormInputs
    /\ nOut = <<>>
    /\ nStage = 0

NormOnce ==
    /\ nStage = 0
    /\ nOut' = normalizeText(nIn)
    /\ nStage' = 1
    /\ UNCHANGED <<clock, ticks, dbBound, messages, nextId, rate_limits, req,
                   started, nIn>>

NormTwice ==
    /\ nStage = 1
    /\ nOut' = normalizeText(nOut)
    /\ nStage' = 2
    /\ UNCHANGED <<clock, ticks, dbBound, messages, nextId, rate_limits, req,
                   started, nIn>>

NormNext == NormOnce \/ NormTwice

NormSpec == NormInit /\ [][NormNext]_vars

---------------------------------------------------------------------------
(* Vocabulary of the claims *)

Started(r) == req[r].pc # "idle"
Done(r) == req[r].pc = "done"

\* r is a POST that reached the rate limiter of the rate-limited handler
RlPost(r) ==
    Started(r) /\ req[r].variant = "rl" /\ req[r].method = "POST" /\ req[r].key # ""

\* two different POSTs of one client key at the rate limiter
SameKey(p, q) == p # q /\ RlPost(p) /\ RlPost(q) /\ req[p].key = req[q].key

\* p had answered when q started
Before(p, q) == Started(q) /\ p \in req[q].before

Overlap(p, q) == p # q /\ Started(p) /\ Started(q) /\ ~Before(p, q) /\ ~Before(q, p)

\* no storage call of r failed
NoFault(r) == ~req[r].fault

\* no third POST of the key overlaps p or q
NoThird(p, q) ==
    \A o \in Reqs \ {p, q} : SameKey(o, p) => ~Overlap(o, p) /\ ~Overlap(o, q)

\* the row r inserted
RowOf(r) == messages[req[r].rowId]

Inserted(r) == req[r].rowId # 0

---------------------------------------------------------------------------
(* C1: in the rate-limited handler, when a POST of a client key was allowed *)
(* at t1 (it passed the check and recorded t1) and, after it answered, a    *)
(* POST of the same key arrives at t2 with t2 - t1 < 30000 ms, no other     *)
(* POST of the key overlapping either, the second never gets past the       *)
(* check: it does not upsert, does not read its body, inserts no message,   *)
(* and, unless its rate-limit read fails (a storage error, 500), it         *)
(* answers 429 "Too many requests".                                         *)
C1_SecondInWindowIs429 ==
    \A p1, p2 \in Reqs :
        ( /\ SameKey(p1, p2)
          /\ Before(p1, p2)
          /\ req[p1].wrote
          /\ req[p2].now - req[p1].now < WINDOW_MS
          /\ NoThird(p1, p2) )
        => /\ req[p2].pc \in {"read", "done"}
           /\ ~req[p2].wrote
           /\ ~Inserted(p2)
           /\ req[p2].body = Unread
           /\ (Done(p2) /\ NoFault(p2) =>
                  /\ req[p2].resp.kind = "json"
                  /\ req[p2].resp.status = 429
                  /\ req[p2].resp.ok = FALSE
                  /\ req[p2].resp.error = "Too many requests")

\* C1 witness: a second POST 29999 ms after an allowed one got its 429
C1_Witness ==
    \E p1, p2 \in Reqs :
        /\ SameKey(p1, p2)
        /\ Before(p1, p2)
        /\ req[p1].wrote
        /\ Inserted(p1)
        /\ req[p2].now - req[p1].now = WINDOW_MS - 1
        /\ Done(p2)
        /\ req[p2].resp.status = 429

(* C2: every 429 of the rate-limited handler carries                        *)
(* retry_after_ms = 30000 - (now - last_ts) with 0 < retry_after_ms <= 30000 *)
(* in every execution, overlapping POSTs of one key included.               *)
C2_RetryAfterWithinWindow ==
    \A r \in Reqs :
        Done(r) /\ req[r].resp.status = 429 =>
            /\ req[r].resp.retry_after_ms = WINDOW_MS - (req[r].now - req[r].seen)
            /\ 0 < req[r].resp.retry_after_ms
            /\ req[r].resp.retry_after_ms <= WINDOW_MS

(* C3: two POSTs with valid text of one client key, the second starting    *)
(* after the first answered and at least 30000 ms later (exactly 30000      *)
(* included), no other POST of the key between or overlapping them, are     *)
(* both allowed: neither is answered 429 and, absent a storage error, each  *)
(* answers 200 {ok:true} and has inserted its message. A POST of a key      *)
(* nobody has recorded yet is allowed likewise.                             *)
ValidBody(r) ==
    /\ req[r].body \notin {Unread, BadJSON}
    /\ Len(normalizeText(req[r].body)) \in 1..MAX_TEXT

Accepted(r) ==
    /\ req[r].resp.kind = "json"
    /\ req[r].resp.status = 200
    /\ req[r].resp.ok
    /\ Inserted(r)
    /\ RowOf(r).created_at = req[r].now

AllowedOutcome(r) ==
    /\ Done(r) => req[r].resp.status # 429
    /\ Done(r) /\ NoFault(r) /\ ValidBody(r) => Accepted(r)

C3_BothAllowedOutsideWindow ==
    /\ \A p1, p2 \in Reqs :
          ( /\ SameKey(p1, p2)
            /\ Before(p1, p2)
            /\ req[p1].wrote
            /\ req[p2].now - req[p1].now >= WINDOW_MS
            /\ \A o \in Reqs \ {p1, p2} :
                  SameKey(o, p1) => Before(o, p1) \/ Before(p2, o) )
          => AllowedOutcome(p1) /\ AllowedOutcome(p2)
    /\ \A p \in Reqs :
          RlPost(p) /\ (\A o \in Reqs : SameKey(o, p) => Before(p, o))
          => AllowedOutcome(p)

\* C3 witness: both accepted, exactly 30000 ms apart
C3_Witness ==
    \E p1, p2 \in Reqs :
        /\ SameKey(p1, p2)
        /\ Before(p1, p2)
        /\ req[p2].now - req[p1].now = WINDOW_MS
        /\ req[p1].seen = 0
        /\ req[p2].seen = req[p1].now
        /\ Accepted(p1)
        /\ Accepted(p2)

(* C4: every POST whose text has length 1..50 after normalization and that *)
(* passes the rate-limit check without a storage error answers 200         *)
(* {ok:true} and has inserted exactly one row, holding the normalized text; *)
(* a GET issued after that answer, whose SELECT runs before any further     *)
(* message is inserted, returns that row among its at most 10 results.      *)
IsPost(r) == Started(r) /\ req[r].method = "POST"

PassedRateLimit(r) == req[r].variant = "rl" => req[r].wrote

RowsOf(r) == {i \in 1..Len(messages) : i = req[r].rowId}

Range(f) == {f[i] : i \in DOMAIN f}

C4_ValidPostVisibleInGet ==
    \A p \in Reqs :
        IsPost(p) /\ Done(p) /\ ValidBody(p) /\ PassedRateLimit(p) /\ NoFault(p)
        => /\ req[p].resp.kind = "json"
           /\ req[p].resp.status = 200
           /\ req[p].resp.ok
           /\ Cardinality(RowsOf(p)) = 1
           /\ RowOf(p).text = normalizeText(req[p].body)
           /\ \A g \in Reqs :
                 ( /\ req[g].method = "GET"
                   /\ Before(p, g)
                   /\ Done(g)
                   /\ req[g].snap = req[p].rowId )
                 => /\ Len(req[g].data) <= LIMIT
                    /\ RowOf(p) \in Range(req[g].data)

(* C5: every POST whose text (a missing text counts as empty) normalizes   *)
(* to length 0 or to more than 50, and that passes the rate-limit check,    *)
(* answers 400 "Text must be 1-50 chars" and inserts no row.                *)
InvalidBody(r) ==
    /\ req[r].body \notin {Unread, BadJSON}
    /\ Len(normalizeText(req[r].body)) \notin 1..MAX_TEXT

C5_InvalidTextIs400 ==
    \A p \in Reqs :
        IsPost(p) /\ InvalidBody(p) /\ PassedRateLimit(p)
        => /\ Done(p)
           /\ req[p].resp.kind = "json"
           /\ req[p].resp.status = 400
           /\ req[p].resp.ok = FALSE
           /\ req[p].resp.error = "Text must be 1-50 chars"
           /\ ~Inserted(p)
           /\ \A i \in 1..Len(messages) : messages[i].text # req[p].text

\* C5 witness: each handler has rejected a text of 51 characters, and each a
\* text that is missing or blank
C5_Witness ==
    \E p, q \in Reqs :
        /\ IsPost(p) /\ IsPost(q)
        /\ req[p].variant = "rl" /\ req[p].wrote
        /\ req[q].variant = "plain"
        /\ \/ Len(normalizeText(req[p].body)) = MAX_TEXT + 1
              /\ req[q].body \in {Undefined, <<SP, TAB>>}
           \/ Len(normalizeText(req[q].body)) = MAX_TEXT + 1
              /\ req[p].body \in {Undefined, <<SP, TAB>>}
        /\ req[p].body # BadJSON /\ req[q].body # BadJSON
        /\ req[p].resp.status = 400
        /\ req[q].resp.status = 400

(* C6: whatever the table holds, a GET returns at most 10 messages, in     *)
(* non-increasing created_at, and no message it leaves out is newer than    *)
(* one it returns: the result is the top min(10, n) by created_at.          *)
Snapshot(g) == {messages[i] : i \in 1..req[g].snap}

Min(a, b) == IF a <= b THEN a ELSE b

C6_GetTopTenDescending ==
    \A g \in Reqs :
        Done(g) /\ req[g].method = "GET" /\ req[g].snap >= 0
        => LET data == req[g].data
           IN /\ Len(data) <= LIMIT
              /\ Len(data) = Min(LIMIT, req[g].snap)
              /\ Range(data) \subseteq Snapshot(g)
              /\ Cardinality(Range(data)) = Len(data)
              /\ \A i, j \in 1..Len(data) :
                    i < j => data[i].created_at >= data[j].created_at
              /\ \A m \in Snapshot(g) \ Range(data) :
                    \A i \in 1..Len(data) : m.created_at <= data[i].created_at

\* C6 witness: a GET over more than 10 rows returned 10, the newest first
\* and the oldest left out
C6_Witness ==
    \E g \in Reqs :
        /\ Done(g) /\ req[g].method = "GET"
        /\ req[g].snap > LIMIT
        /\ Len(req[g].data) = LIMIT
        /\ req[g].data[1].id = req[g].snap
        /\ messages[1] \notin Range(req[g].data)

(* C7: two concurrent POSTs of one client key can both be allowed inside   *)
(* one window: both read rate_limits before either upserts, both pass the   *)
(* check and both insert (the witness). As an invariant: whenever two POSTs *)
(* of a key, no third overlapping them, have both inserted messages less    *)
(* than 30000 ms apart, each had read before the other's upsert.            *)
Abs(x) == IF x < 0 THEN -x ELSE x

C7_DoubleAllowOnlyByRace ==
    \A p, q \in Reqs :
        ( /\ SameKey(p, q)
          /\ Inserted(p) /\ Inserted(q)
          /\ Abs(RowOf(p).created_at - RowOf(q).created_at) < WINDOW_MS
          /\ NoThird(p, q) )
        => /\ Overlap(p, q)
           /\ q \notin req[p].wroteAtRead
           /\ p \notin req[q].wroteAtRead

\* C7 witness: both POSTs of the key answered 200 and their rows are less
\* than 30000 ms apart
C7_Witness ==
    \E p, q \in Reqs :
        /\ SameKey(p, q)
        /\ Overlap(p, q)
        /\ req[p].wroteAtRead = {} /\ req[q].wroteAtRead = {}
        /\ req[p].seen = 0 /\ req[q].seen = 0
        /\ Accepted(p) /\ Accepted(q)
        /\ Abs(RowOf(p).created_at - RowOf(q).created_at) < WINDOW_MS

(* C8: every failure answers a JSON envelope with ok:false: for GET and    *)
(* POST of either handler, a missing env.DB or a failed storage call gives  *)
(* a 500 with ok:false and an error, never an unhandled exception and never *)
(* a success; a failed rate-limit read or upsert never reaches the insert.  *)
C8_FailuresAre500Envelopes ==
    \A r \in Reqs :
        Done(r) =>
            /\ req[r].resp.kind # "exception"
            /\ req[r].fault =>
                  /\ req[r].resp.kind = "json"
                  /\ req[r].resp.status = 500
                  /\ req[r].resp.ok = FALSE
                  /\ req[r].resp.error # ""
                  /\ ~Inserted(r)
            /\ req[r].resp.kind = "json" /\ req[r].resp.status # 200 =>
                  req[r].resp.ok = FALSE /\ req[r].resp.error # ""

(* C9: dispatch is total and fixed: OPTIONS answers 200 with an empty body, *)
(* GET takes the read path, POST the write path, and any other method       *)
(* answers 405 "Method not allowed" whatever the environment (env.DB        *)
(* missing included) and changes nothing stored.                            *)
C9_DispatchByMethod ==
    \A r \in Reqs :
        Done(r) =>
            /\ req[r].method = "OPTIONS" => req[r].resp = EmptyResponse
            /\ req[r].method = "PUT" =>
                  /\ req[r].resp = JsonErr(405, "Method not allowed")
                  /\ ~req[r].wrote /\ ~Inserted(r)
            /\ req[r].method = "GET" => ~req[r].wrote /\ ~Inserted(r)
            /\ req[r].method # "POST" => req[r].body = Unread
            /\ req[r].method # "GET" => req[r].snap = -1

(* C9 as amended: as C9, except that the rate-limited handler, when env.DB *)
(* is missing, answers every method but OPTIONS with 500 "DB binding not    *)
(* found" before it dispatches; with env.DB bound, and in the plain handler *)
(* always, any other method answers 405 "Method not allowed".               *)
DbCheckedFirst(r) == req[r].variant = "rl" /\ ~dbBound

C9_DispatchAfterDbCheck ==
    \A r \in Reqs :
        Done(r) =>
            /\ req[r].method = "OPTIONS" => req[r].resp = EmptyResponse
            /\ req[r].method # "OPTIONS" /\ DbCheckedFirst(r) =>
                  req[r].resp =
                      JsonErr(500, "DB binding not found (env.DB is undefined)")
            /\ req[r].method = "PUT" =>
                  /\ ~DbCheckedFirst(r) =>
                        req[r].resp = JsonErr(405, "Method not allowed")
                  /\ ~req[r].wrote /\ ~Inserted(r)
            /\ req[r].method = "GET" => ~req[r].wrote /\ ~Inserted(r)
            /\ req[r].method # "POST" => req[r].body = Unread
            /\ req[r].method # "GET" => req[r].snap = -1

\* C9 witness: with env.DB bound, both handlers answered an unknown method
\* with 405
C9_Witness ==
    \E r, q \in Reqs :
        /\ dbBound
        /\ req[r].variant = "rl" /\ req[q].variant = "plain"
        /\ req[r].method = "PUT" /\ req[q].method = "PUT"
        /\ req[r].resp.status = 405 /\ req[q].resp.status = 405

(* C10: normalizeText is idempotent, for every string and for a missing    *)
(* argument, and its result has no leading or trailing whitespace and no    *)
(* run of two or more whitespace characters.                                *)
NoEdgeSpace(s) == s = <<>> \/ (~IsSpace(s[1]) /\ ~IsSpace(s[Len(s)]))

NoSpaceRun(s) == \A i \in 1..(Len(s) - 1) : ~(IsSpace(s[i]) /\ IsSpace(s[i + 1]))

C10_NormalizeIdempotent ==
    /\ nStage >= 1 => NoEdgeSpace(nOut) /\ NoSpaceRun(nOut)
    /\ nStage = 2 => nOut = normalizeText(nIn)

\* C10 witness: an argument with edge whitespace and an inner run, twice
\* normalized
C10_Witness ==
    /\ nStage = 2
    /\ nIn = <<SP, "a", TAB, SP>> \/ nIn = <<"a", TAB, SP, "a">>
    /\ nOut \in {<<"a">>, <<"a", SP, "a">>}

(* C11: on every 429 the Retry-After header is ceil(retry_after_ms / 1000), *)
(* a whole number of seconds between 1 and 30 with                          *)
(* Retry-After * 1000 >= retry_after_ms, so that a POST sent Retry-After    *)
(* seconds after the throttled one is past the window of the stored last_ts. *)
C11_RetryAfterHeader ==
    \A r \in Reqs :
        Done(r) /\ req[r].resp.status = 429 =>
            LET ms == req[r].resp.retry_after_ms
                sec == req[r].resp.retry_after
            IN /\ sec * 1000 >= ms
               /\ (sec - 1) * 1000 < ms
               /\ sec \in 1..(WINDOW_MS \div 1000)
               /\ (req[r].now + sec * 1000) - req[r].seen >= WINDOW_MS

(* C12: the rate limiter reads rate_limits exactly once per POST; on the    *)
(* throttled path it writes nothing (rate_limits and messages are as they   *)
(* were), on the allowed path it upserts exactly once, leaving the key's    *)
(* last_ts equal to the now of the request.                                 *)
C12_Step(r) ==
    /\ req'[r].reads <= 1 /\ req'[r].upserts <= 1
    /\ ~RlPost(r)' => req'[r].reads = 0 /\ req'[r].upserts = 0
    /\ (RlPost(r) /\ Done(r))' => req'[r].reads = 1
    /\ (RlPost(r) /\ req[r].pc \notin {"read"})' => req'[r].reads = 1
    \* the throttled path
    /\ req[r].pc = "read" /\ req'[r].resp.status = 429 =>
          /\ rate_limits' = rate_limits
          /\ messages' = messages
    /\ (Done(r) /\ req[r].resp.status = 429)' =>
          /\ req'[r].upserts = 0
          /\ ~req'[r].wrote
          /\ ~Inserted(r)'
    \* the allowed path
    /\ req[r].pc = "upsert" /\ req'[r].wrote =>
          /\ SelectLastTs(rate_limits', req[r].key) = req[r].now
          /\ messages' = messages
    /\ (RlPost(r) /\ req[r].seen >= 0 /\ ~Throttled(req[r].seen, req[r].now)
            /\ req[r].pc # "upsert")' =>
          /\ req'[r].upserts = 1
          /\ NoFault(r)' => req'[r].wrote

C12_OneReadOneUpsert == [][\A r \in Reqs : C12_Step(r)]_vars

\* C12 witness: one POST of the key was allowed and upserted once, its now
\* is the stored last_ts, and a later one was throttled after its one read
C12_Witness ==
    \E p, q \in Reqs :
        /\ SameKey(p, q)
        /\ Before(p, q)
        /\ req[p].reads = 1 /\ req[p].upserts = 1 /\ req[p].wrote
        /\ Done(q) /\ req[q].resp.status = 429
        /\ req[q].reads = 1 /\ req[q].upserts = 0
        /\ SelectLastTs(rate_limits, req[p].key) = req[p].now

(* C13: the rate-limit upsert comes before the body is parsed: a POST that  *)
(* passes the check and is then answered 400 (malformed JSON or invalid     *)
(* text) has recorded last_ts = now all the same, so a POST of the key that *)
(* follows less than 30000 ms later is answered 429 although no message was *)
(* accepted; and inside the window a POST is answered 429 whatever its      *)
(* body, never 400: its body is not read.                                   *)
Rejected400(r) == Done(r) /\ req[r].resp.kind = "json" /\ req[r].resp.status = 400

C13_UpsertBeforeValidation ==
    /\ \A p \in Reqs :
          RlPost(p) /\ Rejected400(p) =>
              /\ req[p].wrote
              /\ ~Inserted(p)
              /\ (\A o \in Reqs : SameKey(o, p) => ~req[o].wrote) =>
                    SelectLastTs(rate_limits, req[p].key) = req[p].now
    /\ \A p \in Reqs :
          RlPost(p) /\ req[p].body # Unread => req[p].wrote
    /\ \A p1, p2 \in Reqs :
          ( /\ SameKey(p1, p2)
            /\ Before(p1, p2)
            /\ Rejected400(p1)
            /\ req[p2].now - req[p1].now < WINDOW_MS
            /\ NoThird(p1, p2) )
          => /\ req[p2].body = Unread
             /\ ~Rejected400(p2)
             /\ ~Inserted(p2)
             /\ Done(p2) /\ NoFault(p2) => req[p2].resp.status = 429

\* C13 witness: a POST with malformed JSON or invalid text got its 400, and
\* the next POST of the key, inside the window, got 429 with no message ever
\* inserted by either
C13_Witness ==
    \E p1, p2 \in Reqs :
        /\ SameKey(p1, p2)
        /\ Before(p1, p2)
        /\ Rejected400(p1)
        /\ req[p1].body \in {BadJSON, Rep("a", MAX_TEXT + 1)}
        /\ req[p2].now - req[p1].now = WINDOW_MS - 1
        /\ Done(p2) /\ req[p2].resp.status = 429
        /\ ~Inserted(p1) /\ ~Inserted(p2)

(* C14: messages is append-only: a step never removes or changes a row (id, *)
(* text and created_at stay), a row is created only by a POST that answers  *)
(* 200 in that step, and ids are unique and strictly increasing in          *)
(* insertion order.                                                         *)
C14_Step ==
    /\ Len(messages') >= Len(messages)
    /\ \A i \in 1..Len(messages) : messages'[i] = messages[i]
    /\ Len(messages') <= Len(messages) + 1
    /\ Len(messages') = Len(messages) + 1 =>
          \E r \in Reqs :
              /\ req[r].method = "POST"
              /\ ~Done(r) /\ Done(r)'
              /\ req'[r].resp = JsonOk
              /\ req'[r].rowId = messages'[Len(messages')].id
              /\ \A o \in Reqs \ {r} : req'[o] = req[o]
    /\ \A i, j \in 1..Len(messages') : i < j => messages'[i].id < messages'[j].id
    /\ \A r \in Reqs :
          /\ (IsPost(r) /\ Done(r) /\ req[r].resp.status = 200)' =>
                /\ Inserted(r)'
                /\ \E i \in 1..Len(messages') : messages'[i].id = req'[r].rowId
          /\ (Done(r) /\ req[r].resp.status # 200)' => ~Inserted(r)'

C14_AppendOnly == [][C14_Step]_vars

\* C14 witness: two POSTs inserted after the rows that were there, which are
\* all still in place
C14_Witness ==
    /\ Len(messages) = PrefillRows + 2
    /\ \A i \in 1..PrefillRows : messages[i] = Prefill(PrefillRows)[i]
    /\ \E p, q \in Reqs :
          /\ p # q
          /\ req[p].rowId = PrefillRows + 1
          /\ req[q].rowId = PrefillRows + 2
          /\ req[p].resp = JsonOk /\ req[q].resp = JsonOk

(* C15: every stored message text has length 1..50 and is in normalized     *)
(* form (no leading or trailing whitespace, no whitespace other than single *)
(* spaces), whichever handler wrote it.                                     *)
OnlySingleSpaces(s) ==
    /\ \A i \in 1..Len(s) : IsSpace(s[i]) => s[i] = SP
    /\ NoSpaceRun(s)

C15_StoredTextNormalized ==
    \A i \in 1..Len(messages) :
        /\ Len(messages[i].text) \in 1..MAX_TEXT
        /\ NoEdgeSpace(messages[i].text)
        /\ OnlySingleSpaces(messages[i].text)

(* C16: under the non-decreasing clock, as long as the POSTs of a client    *)
(* key do not overlap, the key's stored last_ts never decreases, and right  *)
(* after an allowed POST inserted its message the key's last_ts equals that *)
(* message's created_at; when POSTs of the key overlap, last_ts can         *)
(* decrease (the witness).                                                  *)
LastTs(k) == SelectLastTs(rate_limits, k)

NonOverlappingKey(k) ==
    \A p, q \in Reqs : SameKey(p, q) /\ req[p].key = k => ~Overlap(p, q)

C16_Step ==
    /\ clock' >= clock
    /\ \A k \in Keys : NonOverlappingKey(k)' => LastTs(k)' >= LastTs(k)
    /\ \A r \in Reqs :
          (RlPost(r) /\ ~Inserted(r) /\ Inserted(r)' /\ NonOverlappingKey(req[r].key)')
          => /\ req[r].wrote
             /\ LastTs(req[r].key)' = messages'[req'[r].rowId].created_at

C16_LastTsMonotonic == [][C16_Step]_vars

\* C16 witness: of two overlapping POSTs of a key, the one holding the older
\* now upserted last: last_ts went back from the newer now to the older
C16_Witness ==
    \E p, q \in Reqs :
        /\ SameKey(p, q)
        /\ Overlap(p, q)
        /\ req[p].wrote /\ req[q].wrote
        /\ req[p].now < req[q].now
        /\ LastTs(req[p].key) = req[p].now
        /\ Inserted(q) /\ RowOf(q).created_at > LastTs(req[q].key)

(* C17: rate limiting is per client key: a POST of key A reads and writes   *)
(* only A's row of rate_limits, never changes the last_ts of another key B  *)
(* and never gets a POST of B throttled: whether a POST is throttled is     *)
(* decided by its own key's stored last_ts and its now alone. There is at   *)
(* most one row per key.                                                    *)
RowsOfKey(table, k) == {row \in table : row.ip_hash = k}

C17_Step ==
    /\ \A k \in Keys : Cardinality(RowsOfKey(rate_limits', k)) <= 1
    /\ \A row \in rate_limits' : row.ip_hash \in Keys
    /\ \A r \in Reqs :
          req'[r] # req[r] =>
              IF RlPost(r)'
              THEN \A k \in Keys \ {req'[r].key} :
                      RowsOfKey(rate_limits', k) = RowsOfKey(rate_limits, k)
              ELSE rate_limits' = rate_limits
    /\ \A r \in Reqs :
          (req[r].pc = "read" /\ req'[r].pc # "read" /\ NoFault(r)') =>
              /\ req'[r].seen = LastTs(req[r].key)
              /\ (req'[r].resp.status = 429) <=>
                    (req'[r].seen # 0 /\ req[r].now - req'[r].seen < WINDOW_MS)
    /\ \A r \in Reqs :
          (Done(r) /\ req[r].resp.status = 429)' =>
              \E o \in Reqs :
                  /\ SameKey(o, r)'
                  /\ req'[o].wrote
                  /\ req'[o].now = req'[r].seen

C17_PerKeyIsolation == [][C17_Step]_vars

\* C17 witness: while key A is inside its window, a POST of key B that
\* started afterwards was allowed and inserted; A's row is as A left it
C17_Witness ==
    \E p, q \in Reqs :
        /\ RlPost(p) /\ RlPost(q)
        /\ req[p].key # req[q].key
        /\ Before(p, q)
        /\ req[p].wrote
        /\ req[q].now - req[p].now < WINDOW_MS
        /\ req[q].seen = 0
        /\ Accepted(q)
        /\ LastTs(req[p].key) = req[p].now
        /\ LastTs(req[q].key) = req[q].now
        /\ Cardinality(rate_limits) = 2

(* C18: GET and OPTIONS are read-only: no step of such a request changes    *)
(* messages or rate_limits; and GET is never rate limited: it issues no     *)
(* rate_limits statement, is never answered 429 and, absent a storage       *)
(* error, answers 200 with data even while a client key is inside its       *)
(* 30000 ms window (GET does not compute a client key at all).              *)
C18_Step ==
    \A r \in Reqs :
        req'[r].method \in {"GET", "OPTIONS"} =>
            /\ req'[r] # req[r] =>
                  /\ messages' = messages
                  /\ nextId' = nextId
                  /\ rate_limits' = rate_limits
            /\ req'[r].reads = 0 /\ req'[r].upserts = 0
            /\ ~req'[r].wrote /\ ~Inserted(r)'
            /\ req'[r].resp.status # 429
            /\ (Done(r)' /\ req'[r].method = "OPTIONS") => req'[r].resp = EmptyResponse
            /\ (Done(r)' /\ req'[r].method = "GET" /\ NoFault(r)') =>
                  /\ req'[r].resp = JsonOk
                  /\ req'[r].snap >= 0
            /\ (~Done(r) /\ Done(r)' /\ req'[r].method = "GET" /\ NoFault(r)') =>
                  req'[r].data \in SelectRecent(messages)

C18_GetOptionsReadOnly == [][C18_Step]_vars

\* C18 witness: a GET that started 1 ms after a POST was allowed, inside that
\* key's window, answered 200 with the new message first
C18_Witness ==
    \E p, g \in Reqs :
        /\ RlPost(p) /\ Accepted(p)
        /\ Before(p, g)
        /\ req[g].variant = "rl" /\ req[g].method = "GET"
        /\ clock - LastTs(req[p].key) < WINDOW_MS
        /\ req[g].resp = JsonOk
        /\ Len(req[g].data) >= 1
        /\ req[g].data[1] = RowOf(p)
        /\ rate_limits = {[ip_hash |-> req[p].key, last_ts |-> req[p].now]}

====
